---- MODULE Spec2Model ----
(***************************************************************************)
(* Model of the command-line parser of rust-analyzer,                      *)
(* crates/rust-analyzer/src/bin/args.rs (Args::parse, handle_extra_flags). *)
(*                                                                         *)
(* Args::parse is one pass over the process arguments.  The model runs it  *)
(* gate by gate: `matches` is the list of still unconsumed tokens, `pc`    *)
(* the gate that runs next, and the remaining variables are the locals and *)
(* the fields of the returned Args.                                        *)
(*                                                                         *)
(* Strings the code builds (error messages, joined paths) are sequences of *)
(* pieces, so that "a, b, " minus its last two bytes is the sequence       *)
(* without its last piece ", ".                                            *)
(***************************************************************************)
EXTENDS Integers, Sequences, FiniteSets, TLC

VARIABLES args, matches, pc, verbosity, log_file, subcommand, command,
          debug_snippet, acc, result

vars == <<args, matches, pc, verbosity, log_file, subcommand, command,
          debug_snippet, acc, result>>

(***************************************************************************)
(* Bounds of the explored inputs.                                          *)
(***************************************************************************)
MaxGlobal == 3
MaxTail == 4

(***************************************************************************)
(* Option<T>: None is the empty sequence, Some(v) the one-element one.     *)
(***************************************************************************)
None == <<>>
Some(v) == <<v>>

(***************************************************************************)
(* Token universes.  DashTokens are the tokens that start with '-'.        *)
(***************************************************************************)
GlobalTokens ==
    {"--version", "-vv", "--spammy", "-v", "--verbose", "-q", "--quiet",
     "--log-file", "f.log", "-h", "--help", "--foo"}

DashTokens ==
    {"--version", "-vv", "--spammy", "-v", "--verbose", "-q", "--quiet",
     "--log-file", "-h", "--help", "--foo",
     "--no-dump", "--rainbow", "--randomize", "--parallel", "--memory-usage",
     "-o", "--only", "--with-deps", "--load-output-dirs", "--with-proc-macro",
     "--highlight", "--complete", "--goto-def", "--debug"}

starts_with_dash(t) == t \in DashTokens

KnownSubcommands ==
    {"parse", "symbols", "highlight", "analysis-stats", "analysis-bench",
     "diagnostics", "proc-macro", "ssr", "search"}

Subcommands == KnownSubcommands \cup {"bogus"}

TailTokens(sub) ==
    CASE sub = "parse" -> {"--no-dump", "--foo", "x"}
      [] sub = "symbols" -> {"--foo", "x"}
      [] sub = "highlight" -> {"--rainbow", "--foo", "x"}
      [] sub = "proc-macro" -> {"--foo", "x"}
      [] sub = "analysis-stats" ->
            {"--randomize", "--parallel", "-o", "--only", "--with-deps",
             "p", "--foo"}
      [] sub = "analysis-bench" ->
            {"--highlight", "--complete", "--goto-def", "a.rs:10:5",
             "--memory-usage", "p"}
      [] sub = "diagnostics" ->
            {"--load-output-dirs", "--with-proc-macro", "p", "q", "--foo"}
      [] sub = "ssr" -> {"$a ==> $b", "foo() ==> bar()", "bad", "--foo"}
      [] sub = "search" -> {"--debug", "snip", "$a.foo()", "bad"}
      [] OTHER -> {"--foo", "x", "-h"}

\* Global flags in any order and number, then nothing or a short command.
GlobalInputs(a) ==
    \E k \in 0..MaxGlobal : \E g \in [1..k -> GlobalTokens] :
        \E r \in {<<>>, <<"symbols">>, <<"bogus", "x">>} : a = g \o r

\* A subcommand with its own tokens, after a short global prefix.
CommandInputs(a) ==
    \E sub \in Subcommands : \E k \in 0..MaxTail : \E t \in [1..k -> TailTokens(sub)] :
        \E g \in {<<>>, <<"-v">>, <<"--log-file", "f.log">>} : a = g \o <<sub>> \o t

(***************************************************************************)
(* Conversions of a token into the type an option or argument asks for.    *)
(***************************************************************************)
\* String: every token converts, to itself.
StringFromStr(t) == [ok |-> TRUE, val |-> t]

\* PathBuf: every token converts, to the path with that text.
PathBuf(t) == [path_buf |-> t]
PathBufFromStr(t) == [ok |-> TRUE, val |-> PathBuf(t)]

\* Position: PATH:LINE:COLUMN.
PositionFromStr(t) ==
    IF t = "a.rs:10:5"
    THEN [ok |-> TRUE, val |-> [path |-> PathBuf("a.rs"), line |-> 10, column |-> 5]]
    ELSE [ok |-> FALSE, val |-> [path |-> PathBuf(""), line |-> 0, column |-> 0]]

\* SsrRule: `pattern ==> template`.
SsrRuleFromStr(t) ==
    IF t = "$a ==> $b" THEN [ok |-> TRUE, val |-> [pattern |-> "$a", template |-> "$b"]]
    ELSE IF t = "foo() ==> bar()"
         THEN [ok |-> TRUE, val |-> [pattern |-> "foo()", template |-> "bar()"]]
    ELSE [ok |-> FALSE, val |-> [pattern |-> "", template |-> ""]]

\* SsrPattern: a pattern without template.
SsrPatternFromStr(t) ==
    IF t \in {"$a.foo()", "snip"} THEN [ok |-> TRUE, val |-> [pattern |-> t]]
    ELSE [ok |-> FALSE, val |-> [pattern |-> ""]]

\* env::current_dir(), and the absolute path of a relative one under it.
current_dir == "/cwd"
AbsPathBuf(path) == [abs_path_buf |-> <<current_dir, "/", path>>]

\* <T as FromStr>::from_str
FromStr(T, t) ==
    CASE T = "String" -> StringFromStr(t)
      [] T = "PathBuf" -> PathBufFromStr(t)
      [] T = "Position" -> PositionFromStr(t)
      [] T = "SsrRule" -> SsrRuleFromStr(t)
      [] T = "SsrPattern" -> SsrPatternFromStr(t)

(***************************************************************************)
(* pico_args::Arguments, the token consumer.                               *)
(***************************************************************************)
Remove(s, i) == SubSeq(s, 1, i - 1) \o SubSeq(s, i + 1, Len(s))

\* Index of the first token equal to key, 0 when there is none.
position(s, key) ==
    IF \E i \in 1..Len(s) : s[i] = key
    THEN CHOOSE i \in 1..Len(s) : s[i] = key /\ \A j \in 1..(i - 1) : s[j] # key
    ELSE 0

RECURSIVE index_of(_, _)
\* The aliases are tried in the order given; the first one present wins.
index_of(s, keys) ==
    IF keys = <<>> THEN 0
    ELSE IF position(s, Head(keys)) # 0 THEN position(s, Head(keys))
    ELSE index_of(s, Tail(keys))

\* Tests for a flag under any of its aliases and removes one occurrence.
contains(s, keys) ==
    LET i == index_of(s, keys)
    IN [found |-> i # 0, rest |-> IF i = 0 THEN s ELSE Remove(s, i)]

\* Errors raised by the token consumer itself, as message pieces.
OptionWithoutAValue(key) == <<"pico_args: ", "option without a value: ", key>>
ArgumentParsingFailed(value) == <<"pico_args: ", "failed to parse: ", value>>

\* Takes `key value`: the token after the key is the value, whatever it is.
\* T is the target type; its FromStr returns [ok, val].
opt_value_from_str(s, keys, T) ==
    LET i == index_of(s, keys)
    IN IF i = 0 THEN [tag |-> "None", val |-> None, rest |-> s, msg |-> <<>>]
       ELSE IF i = Len(s)
            THEN [tag |-> "Err", val |-> None, rest |-> s,
                  msg |-> OptionWithoutAValue(s[i])]
       ELSE IF ~FromStr(T, s[i + 1]).ok
            THEN [tag |-> "Err", val |-> None, rest |-> s,
                  msg |-> ArgumentParsingFailed(s[i + 1])]
       ELSE [tag |-> "Some", val |-> Some(FromStr(T, s[i + 1]).val),
             rest |-> Remove(Remove(s, i), i), msg |-> <<>>]

\* The first token, unless it looks like a flag.
matches_subcommand(s) ==
    IF s = <<>> \/ starts_with_dash(s[1])
    THEN [val |-> None, rest |-> s]
    ELSE [val |-> Some(s[1]), rest |-> Tail(s)]

\* All remaining non-flag tokens, in order.
free(s) ==
    [trailing |-> SelectSeq(s, LAMBDA t : ~starts_with_dash(t)),
     rest |-> SelectSeq(s, LAMBDA t : starts_with_dash(t))]

\* The next remaining token converted to T, None when none is left.
free_from_str(s, T) ==
    IF s = <<>> THEN [tag |-> "None", val |-> None, rest |-> s, msg |-> <<>>]
    ELSE IF ~FromStr(T, Head(s)).ok
         THEN [tag |-> "Err", val |-> None, rest |-> Tail(s),
               msg |-> ArgumentParsingFailed(Head(s))]
    ELSE [tag |-> "Some", val |-> Some(FromStr(T, Head(s)).val), rest |-> Tail(s),
          msg |-> <<>>]

\* Fails with UnusedArgsLeft(flags) when any token is left.
finish(s) == [ok |-> s = <<>>, flags |-> s]

(***************************************************************************)
(* handle_extra_flags: the message for the tokens finish() found left.     *)
(***************************************************************************)
RECURSIVE write_flags(_)
\* write!(&mut invalid_flags, "{}, ", flag) for every flag.
write_flags(flags) ==
    IF flags = <<>> THEN <<>>
    ELSE <<Head(flags), ", ">> \o write_flags(Tail(flags))

\* split_at(len - 2) drops the trailing ", ".
handle_extra_flags(flags) ==
    LET invalid_flags == write_flags(flags)
    IN <<"Invalid flags: ">> \o SubSeq(invalid_flags, 1, Len(invalid_flags) - 1)

(***************************************************************************)
(* The results of Args::parse.                                             *)
(***************************************************************************)
Pending == [tag |-> "Pending", msg |-> <<>>]
Ok == [tag |-> "Ok", msg |-> <<>>]
Err(msg) == [tag |-> "Err", msg |-> msg]
Panic(msg) == [tag |-> "Panic", msg |-> msg]

Unset == [name |-> "Unset"]

\* bail!(msg) and `?`: parse returns the error, no Args is built.
Fail(msg) ==
    /\ pc' = "done"
    /\ result' = Err(msg)
    /\ UNCHANGED <<args, matches, verbosity, log_file, subcommand, command,
                   debug_snippet, acc>>

\* Ok(Args { verbosity, log_file, command }) at the end of parse.
Return(cmd, rest) ==
    /\ pc' = "done"
    /\ result' = Ok
    /\ command' = cmd
    /\ matches' = rest
    /\ UNCHANGED <<args, verbosity, log_file, subcommand, debug_snippet, acc>>

Init ==
    /\ GlobalInputs(args) \/ CommandInputs(args)
    /\ matches = args
    /\ pc = "version"
    /\ verbosity = "Unset"
    /\ log_file = None
    /\ subcommand = None
    /\ command = Unset
    /\ debug_snippet = None
    /\ acc = <<>>
    /\ result = Pending

(***************************************************************************)
(* Gate 1: --version.                                                      *)
(***************************************************************************)
\* Variant: --version returns without looking at the other tokens.
VersionGate_NoFinish ==
    /\ pc = "version"
    /\ LET version == contains(matches, <<"--version">>)
       IN IF version.found
          THEN /\ pc' = "done"
               /\ result' = Ok
               /\ verbosity' = "Normal"
               /\ log_file' = None
               /\ command' = [name |-> "Version"]
               /\ matches' = version.rest
               /\ UNCHANGED <<args, subcommand, debug_snippet, acc>>
          ELSE /\ pc' = "verbosity"
               /\ UNCHANGED <<args, matches, verbosity, log_file, subcommand,
                              command, debug_snippet, acc, result>>

VersionGate ==
    /\ pc = "version"
    /\ LET version == contains(matches, <<"--version">>)
           left == finish(version.rest)
       IN IF version.found
          THEN IF ~left.ok
               THEN /\ Fail(handle_extra_flags(left.flags))
               ELSE /\ pc' = "done"
                    /\ result' = Ok
                    /\ verbosity' = "Normal"
                    /\ log_file' = None
                    /\ command' = [name |-> "Version"]
                    /\ matches' = version.rest
                    /\ UNCHANGED <<args, subcommand, debug_snippet, acc>>
          ELSE /\ pc' = "verbosity"
               /\ UNCHANGED <<args, matches, verbosity, log_file, subcommand,
                              command, debug_snippet, acc, result>>

(***************************************************************************)
(* Gate 2: verbosity.                                                      *)
(***************************************************************************)
\* Variant: quiet wins over verbose instead of conflicting with it.
VerbosityOf_QuietWins(spammy, verbose, quiet) ==
    CASE spammy /\ quiet ->
            [ok |-> FALSE, val |-> "", msg |-> <<"Invalid flags: ", "-q conflicts with -vv">>]
      [] spammy /\ ~quiet -> [ok |-> TRUE, val |-> "Spammy", msg |-> <<>>]
      [] ~spammy /\ ~verbose /\ ~quiet -> [ok |-> TRUE, val |-> "Normal", msg |-> <<>>]
      [] ~spammy /\ quiet -> [ok |-> TRUE, val |-> "Quiet", msg |-> <<>>]
      [] ~spammy /\ verbose /\ ~quiet -> [ok |-> TRUE, val |-> "Verbose", msg |-> <<>>]

\* Variant: the second column is looked at first, so verbose hides spammy.
VerbosityOf_VerboseFirst(spammy, verbose, quiet) ==
    CASE verbose /\ quiet ->
            [ok |-> FALSE, val |-> "", msg |-> <<"Invalid flags: ", "-q conflicts with -v">>]
      [] verbose /\ ~quiet -> [ok |-> TRUE, val |-> "Verbose", msg |-> <<>>]
      [] ~verbose /\ ~spammy /\ ~quiet -> [ok |-> TRUE, val |-> "Normal", msg |-> <<>>]
      [] ~verbose /\ ~spammy /\ quiet -> [ok |-> TRUE, val |-> "Quiet", msg |-> <<>>]
      [] ~verbose /\ spammy /\ ~quiet -> [ok |-> TRUE, val |-> "Spammy", msg |-> <<>>]
      [] ~verbose /\ spammy /\ quiet ->
            [ok |-> FALSE, val |-> "", msg |-> <<"Invalid flags: ", "-q conflicts with -vv">>]

\* The match on (spammy, verbose, quiet).
VerbosityOf(spammy, verbose, quiet) ==
    CASE spammy /\ quiet ->
            [ok |-> FALSE, val |-> "", msg |-> <<"Invalid flags: ", "-q conflicts with -vv">>]
      [] spammy /\ ~quiet -> [ok |-> TRUE, val |-> "Spammy", msg |-> <<>>]
      [] ~spammy /\ ~verbose /\ ~quiet -> [ok |-> TRUE, val |-> "Normal", msg |-> <<>>]
      [] ~spammy /\ ~verbose /\ quiet -> [ok |-> TRUE, val |-> "Quiet", msg |-> <<>>]
      [] ~spammy /\ verbose /\ ~quiet -> [ok |-> TRUE, val |-> "Verbose", msg |-> <<>>]
      [] ~spammy /\ verbose /\ quiet ->
            [ok |-> FALSE, val |-> "", msg |-> <<"Invalid flags: ", "-q conflicts with -v">>]

VerbosityGate ==
    /\ pc = "verbosity"
    /\ LET spammy == contains(matches, <<"-vv", "--spammy">>)
           verbose == contains(spammy.rest, <<"-v", "--verbose">>)
           quiet == contains(verbose.rest, <<"-q", "--quiet">>)
           v == VerbosityOf(spammy.found, verbose.found, quiet.found)
       IN /\ matches' = quiet.rest
          /\ IF ~v.ok
             THEN /\ pc' = "done"
                  /\ result' = Err(v.msg)
                  /\ UNCHANGED verbosity
             ELSE /\ pc' = "log_file"
                  /\ verbosity' = v.val
                  /\ UNCHANGED result
          /\ UNCHANGED <<args, log_file, subcommand, command, debug_snippet, acc>>

(***************************************************************************)
(* Gate 3: --log-file.                                                     *)
(***************************************************************************)
LogFileGate ==
    /\ pc = "log_file"
    /\ LET lf == opt_value_from_str(matches, <<"--log-file">>, "PathBuf")
       IN IF lf.tag = "Err"
          THEN Fail(lf.msg)
          ELSE /\ pc' = "help"
               /\ log_file' = lf.val
               /\ matches' = lf.rest
               /\ UNCHANGED <<args, verbosity, subcommand, command,
                              debug_snippet, acc, result>>

(***************************************************************************)
(* Gate 4: -h / --help.                                                    *)
(***************************************************************************)
\* Variant: the help path insists on no token being left.
HelpGate_Finish ==
    /\ pc = "help"
    /\ LET help == contains(matches, <<"-h", "--help">>)
           left == finish(help.rest)
       IN IF help.found
          THEN IF ~left.ok
               THEN Fail(handle_extra_flags(left.flags))
               ELSE /\ pc' = "done"
                    /\ result' = Ok
                    /\ log_file' = None
                    /\ command' = [name |-> "Help"]
                    /\ matches' = help.rest
                    /\ UNCHANGED <<args, verbosity, subcommand, debug_snippet, acc>>
          ELSE /\ pc' = "subcommand"
               /\ UNCHANGED <<args, matches, verbosity, log_file, subcommand,
                              command, debug_snippet, acc, result>>

HelpGate ==
    /\ pc = "help"
    /\ LET help == contains(matches, <<"-h", "--help">>)
       IN IF help.found
          THEN /\ pc' = "done"
               /\ result' = Ok
               /\ log_file' = None
               /\ command' = [name |-> "Help"]
               /\ matches' = help.rest
               /\ UNCHANGED <<args, verbosity, subcommand, debug_snippet, acc>>
          ELSE /\ pc' = "subcommand"
               /\ UNCHANGED <<args, matches, verbosity, log_file, subcommand,
                              command, debug_snippet, acc, result>>

(***************************************************************************)
(* Gate 5: the subcommand, or the server when there is none.               *)
(***************************************************************************)
\* Variant: the server starts whatever tokens are left.
SubcommandGate_NoFinish ==
    /\ pc = "subcommand"
    /\ LET sub == matches_subcommand(matches)
       IN IF sub.val = None
          THEN Return([name |-> "RunServer"], sub.rest)
          ELSE /\ pc' = "command"
               /\ subcommand' = sub.val
               /\ matches' = sub.rest
               /\ UNCHANGED <<args, verbosity, log_file, command,
                              debug_snippet, acc, result>>

SubcommandGate ==
    /\ pc = "subcommand"
    /\ LET sub == matches_subcommand(matches)
           left == finish(sub.rest)
       IN IF sub.val = None
          THEN IF ~left.ok
               THEN Fail(handle_extra_flags(left.flags))
               ELSE Return([name |-> "RunServer"], sub.rest)
          ELSE /\ pc' = "command"
               /\ subcommand' = sub.val
               /\ matches' = sub.rest
               /\ UNCHANGED <<args, verbosity, log_file, command,
                              debug_snippet, acc, result>>

(***************************************************************************)
(* The arms of `match subcommand.as_str()`.                                *)
(***************************************************************************)
ParseArm ==
    /\ pc = "command" /\ subcommand = Some("parse")
    /\ LET no_dump == contains(matches, <<"--no-dump">>)
           left == finish(no_dump.rest)
       IN IF ~left.ok
          THEN Fail(handle_extra_flags(left.flags))
          ELSE Return([name |-> "Parse", no_dump |-> no_dump.found], no_dump.rest)

SymbolsArm ==
    /\ pc = "command" /\ subcommand = Some("symbols")
    /\ LET left == finish(matches)
       IN IF ~left.ok
          THEN Fail(handle_extra_flags(left.flags))
          ELSE Return([name |-> "Symbols"], matches)

HighlightArm ==
    /\ pc = "command" /\ subcommand = Some("highlight")
    /\ LET rainbow == contains(matches, <<"--rainbow">>)
           left == finish(rainbow.rest)
       IN IF ~left.ok
          THEN Fail(handle_extra_flags(left.flags))
          ELSE Return([name |-> "Highlight", rainbow |-> rainbow.found], rainbow.rest)

\* Variant: only an empty list is refused, the last token is the path.
trailing_path_NonEmpty(trailing) ==
    IF Len(trailing) = 0
    THEN [ok |-> FALSE, path |-> PathBuf(""), msg |-> <<"Invalid flags">>]
    ELSE [ok |-> TRUE, path |-> PathBuf(trailing[Len(trailing)]), msg |-> <<>>]

\* `if trailing.len() != 1 { bail!("Invalid flags") }; trailing.pop().unwrap().into()`
trailing_path(trailing) ==
    IF Len(trailing) # 1
    THEN [ok |-> FALSE, path |-> PathBuf(""), msg |-> <<"Invalid flags">>]
    ELSE [ok |-> TRUE, path |-> PathBuf(trailing[Len(trailing)]), msg |-> <<>>]

AnalysisStatsArm ==
    /\ pc = "command" /\ subcommand = Some("analysis-stats")
    /\ LET randomize == contains(matches, <<"--randomize">>)
           parallel == contains(randomize.rest, <<"--parallel">>)
           memory_usage == contains(parallel.rest, <<"--memory-usage">>)
           only == opt_value_from_str(memory_usage.rest, <<"-o", "--only">>, "String")
           with_deps == contains(only.rest, <<"--with-deps">>)
           load_output_dirs == contains(with_deps.rest, <<"--load-output-dirs">>)
           with_proc_macro == contains(load_output_dirs.rest, <<"--with-proc-macro">>)
           trailing == free(with_proc_macro.rest)
           path == trailing_path(trailing.trailing)
       IN IF only.tag = "Err" THEN Fail(only.msg)
          ELSE IF ~path.ok THEN Fail(path.msg)
          ELSE Return([name |-> "AnalysisStats",
                       randomize |-> randomize.found,
                       parallel |-> parallel.found,
                       memory_usage |-> memory_usage.found,
                       only |-> only.val,
                       with_deps |-> with_deps.found,
                       path |-> path.path,
                       load_output_dirs |-> load_output_dirs.found,
                       with_proc_macro |-> with_proc_macro.found],
                      trailing.rest)

NoWhat == [kind |-> "None"]

\* The match on (highlight_path, complete_path, goto_def_path).
BenchWhatOf(highlight_path, complete_path, goto_def_path) ==
    CASE highlight_path # None /\ complete_path = None /\ goto_def_path = None ->
            [ok |-> TRUE, what |-> [kind |-> "Highlight", path |-> AbsPathBuf(highlight_path[1])]]
      [] highlight_path = None /\ complete_path # None /\ goto_def_path = None ->
            [ok |-> TRUE, what |-> [kind |-> "Complete", position |-> complete_path[1]]]
      [] highlight_path = None /\ complete_path = None /\ goto_def_path # None ->
            [ok |-> TRUE, what |-> [kind |-> "GotoDef", position |-> goto_def_path[1]]]
      [] OTHER -> [ok |-> FALSE, what |-> NoWhat]

BenchPanic ==
    <<"exactly one of  --highlight, --complete or --goto-def must be set">>

AnalysisBenchArm ==
    /\ pc = "command" /\ subcommand = Some("analysis-bench")
    /\ LET highlight_path == opt_value_from_str(matches, <<"--highlight">>, "String")
           complete_path == opt_value_from_str(highlight_path.rest, <<"--complete">>, "Position")
           goto_def_path == opt_value_from_str(complete_path.rest, <<"--goto-def">>, "Position")
           what == BenchWhatOf(highlight_path.val, complete_path.val, goto_def_path.val)
           memory_usage == contains(goto_def_path.rest, <<"--memory-usage">>)
           load_output_dirs == contains(memory_usage.rest, <<"--load-output-dirs">>)
           with_proc_macro == contains(load_output_dirs.rest, <<"--with-proc-macro">>)
           trailing == free(with_proc_macro.rest)
           path == trailing_path(trailing.trailing)
       IN IF highlight_path.tag = "Err" THEN Fail(highlight_path.msg)
          ELSE IF complete_path.tag = "Err" THEN Fail(complete_path.msg)
          ELSE IF goto_def_path.tag = "Err" THEN Fail(goto_def_path.msg)
          ELSE IF ~what.ok
               THEN /\ pc' = "done"
                    /\ result' = Panic(BenchPanic)
                    /\ matches' = goto_def_path.rest
                    /\ UNCHANGED <<args, verbosity, log_file, subcommand,
                                   command, debug_snippet, acc>>
          ELSE IF ~path.ok THEN Fail(path.msg)
          ELSE Return([name |-> "Bench",
                       memory_usage |-> memory_usage.found,
                       path |-> path.path,
                       what |-> what.what,
                       load_output_dirs |-> load_output_dirs.found,
                       with_proc_macro |-> with_proc_macro.found],
                      trailing.rest)

DiagnosticsArm ==
    /\ pc = "command" /\ subcommand = Some("diagnostics")
    /\ LET load_output_dirs == contains(matches, <<"--load-output-dirs">>)
           with_proc_macro == contains(load_output_dirs.rest, <<"--with-proc-macro">>)
           trailing == free(with_proc_macro.rest)
           path == trailing_path(trailing.trailing)
       IN IF ~path.ok THEN Fail(path.msg)
          ELSE Return([name |-> "Diagnostics",
                       path |-> path.path,
                       load_output_dirs |-> load_output_dirs.found,
                       with_proc_macro |-> with_proc_macro.found],
                      trailing.rest)

\* No flag is read and finish() is not called.
ProcMacroArm ==
    /\ pc = "command" /\ subcommand = Some("proc-macro")
    /\ Return([name |-> "ProcMacro"], matches)

\* `let mut rules = Vec::new();`
SsrArm ==
    /\ pc = "command" /\ subcommand = Some("ssr")
    /\ pc' = "ssr_loop"
    /\ acc' = <<>>
    /\ UNCHANGED <<args, matches, verbosity, log_file, subcommand, command,
                   debug_snippet, result>>

\* Variant: a token that does not convert is skipped.
SsrLoop_SkipsBad ==
    /\ pc = "ssr_loop"
    /\ LET rule == free_from_str(matches, "SsrRule")
       IN CASE rule.tag = "Err" ->
                 /\ matches' = rule.rest
                 /\ UNCHANGED <<args, pc, verbosity, log_file, subcommand,
                                command, debug_snippet, acc, result>>
            [] rule.tag = "Some" ->
                 /\ acc' = Append(acc, rule.val[1])
                 /\ matches' = rule.rest
                 /\ UNCHANGED <<args, pc, verbosity, log_file, subcommand,
                                command, debug_snippet, result>>
            [] rule.tag = "None" -> Return([name |-> "Ssr", rules |-> acc], rule.rest)

\* One turn of `while let Some(rule) = matches.free_from_str()?`.
SsrLoop ==
    /\ pc = "ssr_loop"
    /\ LET rule == free_from_str(matches, "SsrRule")
       IN CASE rule.tag = "Err" -> Fail(rule.msg)
            [] rule.tag = "Some" ->
                 /\ acc' = Append(acc, rule.val[1])
                 /\ matches' = rule.rest
                 /\ UNCHANGED <<args, pc, verbosity, log_file, subcommand,
                                command, debug_snippet, result>>
            [] rule.tag = "None" -> Return([name |-> "Ssr", rules |-> acc], rule.rest)

SearchArm ==
    /\ pc = "command" /\ subcommand = Some("search")
    /\ LET debug == opt_value_from_str(matches, <<"--debug">>, "String")
       IN IF debug.tag = "Err" THEN Fail(debug.msg)
          ELSE /\ pc' = "search_loop"
               /\ debug_snippet' = debug.val
               /\ matches' = debug.rest
               /\ acc' = <<>>
               /\ UNCHANGED <<args, verbosity, log_file, subcommand, command, result>>

SearchLoop ==
    /\ pc = "search_loop"
    /\ LET rule == free_from_str(matches, "SsrPattern")
       IN CASE rule.tag = "Err" -> Fail(rule.msg)
            [] rule.tag = "Some" ->
                 /\ acc' = Append(acc, rule.val[1])
                 /\ matches' = rule.rest
                 /\ UNCHANGED <<args, pc, verbosity, log_file, subcommand,
                                command, debug_snippet, result>>
            [] rule.tag = "None" ->
                 Return([name |-> "StructuredSearch", patterns |-> acc,
                         debug_snippet |-> debug_snippet], rule.rest)

\* Variant: the fallback keeps the log file.
FallbackArm_KeepsLog ==
    /\ pc = "command"
    /\ subcommand # None
    /\ subcommand[1] \notin KnownSubcommands
    /\ pc' = "done"
    /\ result' = Ok
    /\ command' = [name |-> "Help"]
    /\ UNCHANGED <<args, matches, verbosity, log_file, subcommand, debug_snippet, acc>>

\* Any other subcommand: help, and the log file is dropped.
FallbackArm ==
    /\ pc = "command"
    /\ subcommand # None
    /\ subcommand[1] \notin KnownSubcommands
    /\ pc' = "done"
    /\ result' = Ok
    /\ log_file' = None
    /\ command' = [name |-> "Help"]
    /\ UNCHANGED <<args, matches, verbosity, subcommand, debug_snippet, acc>>

Next ==
    \/ VersionGate
    \/ VerbosityGate
    \/ LogFileGate
    \/ HelpGate
    \/ SubcommandGate
    \/ ParseArm
    \/ SymbolsArm
    \/ HighlightArm
    \/ AnalysisStatsArm
    \/ AnalysisBenchArm
    \/ DiagnosticsArm
    \/ ProcMacroArm
    \/ SsrArm
    \/ SsrLoop
    \/ SearchArm
    \/ SearchLoop
    \/ FallbackArm

Spec == Init /\ [][Next]_vars

(***************************************************************************)
(* Vocabulary of the properties.                                           *)
(***************************************************************************)
HasAny(s, S) == \E i \in 1..Len(s) : s[i] \in S
Count(s, S) == Cardinality({i \in 1..Len(s) : s[i] \in S})

SpammyKeys == {"-vv", "--spammy"}
VerboseKeys == {"-v", "--verbose"}
QuietKeys == {"-q", "--quiet"}
HelpKeys == {"-h", "--help"}

VersionGiven == HasAny(args, {"--version"})
SpammyGiven == HasAny(args, SpammyKeys)
VerboseGiven == HasAny(args, VerboseKeys)
QuietGiven == HasAny(args, QuietKeys)

ConflictVV == <<"Invalid flags: ", "-q conflicts with -vv">>
ConflictV == <<"Invalid flags: ", "-q conflicts with -v">>

RECURSIVE CommaJoin(_)
\* The tokens of a non-empty list, separated by ", ".
CommaJoin(s) ==
    IF Len(s) = 1 THEN <<s[1]>> ELSE <<s[1], ", ">> \o CommaJoin(Tail(s))

UnrecognizedArguments(left) == Err(<<"Invalid flags: ">> \o CommaJoin(left))
IsMalformedValue(r) == r.tag = "Err" /\ Len(r.msg) > 0 /\ r.msg[1] = "pico_args: "

\* The tokens left once the three verbosity flags have been taken.
AfterVerbosity ==
    contains(contains(contains(args, <<"-vv", "--spammy">>).rest,
                      <<"-v", "--verbose">>).rest, <<"-q", "--quiet">>).rest

\* The extraction of --log-file from them.
LogFileTaken == opt_value_from_str(AfterVerbosity, <<"--log-file">>, "PathBuf")

\* The tokens a subcommand arm starts with: those after the subcommand.
ArmTokens == Tail(LogFileTaken.rest)

Positionals(s) == SelectSeq(s, LAMBDA t : ~starts_with_dash(t))

(***************************************************************************)
(* C3: with --version among the arguments, parse returns Version (Normal,  *)
(* no log file) exactly when no other token is present, fails naming every *)
(* other token otherwise, and runs no later gate.                          *)
(***************************************************************************)
ThmVersionGate ==
    VersionGiven =>
        /\ pc \in {"version", "done"}
        /\ pc = "done" =>
             LET others == Remove(args, position(args, "--version"))
             IN IF others = <<>>
                THEN /\ result = Ok
                     /\ command = [name |-> "Version"]
                     /\ verbosity = "Normal"
                     /\ log_file = None
                ELSE result = UnrecognizedArguments(others)

WitVersionGate ==
    /\ pc = "done"
    /\ args = <<"--version", "--foo">>
    /\ result = Err(<<"Invalid flags: ", "--foo">>)

(***************************************************************************)
(* C4: without --version, no verbosity flag gives Normal, only quiet gives *)
(* Quiet, only verbose gives Verbose, only spammy gives Spammy, and quiet  *)
(* together with spammy or with verbose fails with the conflict error that *)
(* names the two flags; no successful result comes from a conflicting pair.*)
(***************************************************************************)
ThmVerbosity ==
    (~VersionGiven /\ pc \notin {"version", "verbosity"}) =>
        /\ (QuietGiven /\ SpammyGiven) => (pc = "done" /\ result = Err(ConflictVV))
        /\ (QuietGiven /\ VerboseGiven /\ ~SpammyGiven) =>
               (pc = "done" /\ result = Err(ConflictV))
        /\ (~QuietGiven /\ ~VerboseGiven /\ ~SpammyGiven) => verbosity = "Normal"
        /\ (QuietGiven /\ ~VerboseGiven /\ ~SpammyGiven) => verbosity = "Quiet"
        /\ (~QuietGiven /\ VerboseGiven /\ ~SpammyGiven) => verbosity = "Verbose"
        /\ (~QuietGiven /\ ~VerboseGiven /\ SpammyGiven) => verbosity = "Spammy"
        /\ result = Ok => ~(QuietGiven /\ (SpammyGiven \/ VerboseGiven))

WitVerbosity ==
    /\ pc = "done"
    /\ args = <<"--quiet", "-v", "symbols">>
    /\ result = Err(ConflictV)

(***************************************************************************)
(* C10: verbose together with spammy is no conflict: without quiet the     *)
(* verbosity is Spammy, with quiet the error is the quiet/spammy one; and  *)
(* a verbosity flag given once is gone from the unconsumed tokens after    *)
(* the verbosity gate, so it is never reported as unrecognized.            *)
(***************************************************************************)
ThmVerboseSpammy ==
    (~VersionGiven /\ pc \notin {"version", "verbosity"}) =>
        /\ (SpammyGiven /\ VerboseGiven /\ ~QuietGiven) =>
               (verbosity = "Spammy" /\ result # Err(ConflictV) /\ result # Err(ConflictVV))
        /\ (SpammyGiven /\ VerboseGiven /\ QuietGiven) =>
               (pc = "done" /\ result = Err(ConflictVV))
        /\ \A K \in {SpammyKeys, VerboseKeys, QuietKeys} :
               Count(args, K) = 1 =>
                   /\ ~HasAny(matches, K)
                   /\ (result.tag = "Err" /\ result.msg \notin {ConflictV, ConflictVV})
                          => ~HasAny(result.msg, K)

WitVerboseSpammy ==
    /\ pc = "done"
    /\ args = <<"-v", "--spammy", "symbols">>
    /\ result = Ok
    /\ verbosity = "Spammy"
    /\ matches = <<>>

(***************************************************************************)
(* C1: analysis-bench given none or several of --highlight, --complete,    *)
(* --goto-def returns an error value to the caller: it does not panic and  *)
(* it does not pick one of the targets.                                    *)
(***************************************************************************)
\* How many of the three target options the bench arm finds.
BenchTargets ==
    LET h == opt_value_from_str(ArmTokens, <<"--highlight">>, "String")
        c == opt_value_from_str(h.rest, <<"--complete">>, "Position")
        g == opt_value_from_str(c.rest, <<"--goto-def">>, "Position")
    IN Cardinality({o \in {"h", "c", "g"} :
                      \/ o = "h" /\ h.tag # "None"
                      \/ o = "c" /\ c.tag # "None"
                      \/ o = "g" /\ g.tag # "None"})

ClaimBenchTargetError ==
    (pc = "done" /\ subcommand = Some("analysis-bench") /\ BenchTargets # 1)
        => result.tag = "Err"

(***************************************************************************)
(* C2: parse, symbols, highlight and proc-macro call finish() after their  *)
(* own flags: with a token left the parse fails listing the leftover       *)
(* tokens comma-separated, and only with none left the command is returned.*)
(***************************************************************************)
OwnFlag(sub) ==
    CASE sub = "parse" -> <<"--no-dump">>
      [] sub = "highlight" -> <<"--rainbow">>
      [] OTHER -> <<>>

VariantOf(sub) ==
    CASE sub = "parse" -> "Parse"
      [] sub = "symbols" -> "Symbols"
      [] sub = "highlight" -> "Highlight"
      [] OTHER -> "ProcMacro"

ClaimFinishAfterOwnFlags ==
    [][(pc = "command" /\ subcommand[1] \in {"parse", "symbols", "highlight", "proc-macro"})
          => LET left == contains(matches, OwnFlag(subcommand[1])).rest
             IN IF left # <<>>
                THEN result' = UnrecognizedArguments(left)
                ELSE result' = Ok /\ command'.name = VariantOf(subcommand[1])]_vars

(***************************************************************************)
(* C5: analysis-stats, analysis-bench (with one valid target) and          *)
(* diagnostics, once their own flags and options are taken, fail with      *)
(* "Invalid flags" unless exactly one positional token is left, and then   *)
(* succeed with that token as the path.                                    *)
(***************************************************************************)
RECURSIVE TakeFlags(_, _)
\* m without one occurrence of each of the flags, taken in order.
TakeFlags(m, flags) ==
    IF flags = <<>> THEN m
    ELSE TakeFlags(contains(m, <<Head(flags)>>).rest, Tail(flags))

\* The tokens left of m after the arm of sub has taken its flags and options.
OwnTaken(sub, m) ==
    LET o == opt_value_from_str(
                 TakeFlags(m, <<"--randomize", "--parallel", "--memory-usage">>),
                 <<"-o", "--only">>, "String")
        h == opt_value_from_str(m, <<"--highlight">>, "String")
        c == opt_value_from_str(h.rest, <<"--complete">>, "Position")
        g == opt_value_from_str(c.rest, <<"--goto-def">>, "Position")
    IN CASE sub = "analysis-stats" -> [ok |-> o.tag # "Err", rest |-> o.rest]
         [] sub = "analysis-bench" ->
               [ok |-> /\ "Err" \notin {h.tag, c.tag, g.tag}
                       /\ Cardinality({i \in 1..3 : <<h, c, g>>[i].tag = "Some"}) = 1,
                rest |-> g.rest]
         [] OTHER -> [ok |-> TRUE, rest |-> m]

ThmDefaultMode ==
    [][(pc = "subcommand" /\ (matches = <<>> \/ starts_with_dash(matches[1])))
          => IF matches = <<>>
             THEN /\ result' = Ok
                  /\ command' = [name |-> "RunServer"]
                  /\ verbosity' = verbosity
                  /\ log_file' = LogFileTaken.val
                  /\ args = <<>> => (verbosity' = "Normal" /\ log_file' = None)
                  /\ (\E i \in 1..Len(args) : args[i] = "--log-file")
                         => \E i, j \in 1..Len(args) :
                               /\ i < j /\ args[i] = "--log-file"
                               /\ log_file' = Some(PathBuf(args[j]))
             ELSE result' = UnrecognizedArguments(matches)]_vars

WitDefaultMode ==
    /\ pc = "done"
    /\ args = <<"-q", "--log-file", "f.log">>
    /\ result = Ok
    /\ command = [name |-> "RunServer"]
    /\ log_file = Some(PathBuf("f.log"))

(***************************************************************************)
(* C7: a subcommand token that is none of the nine known ones gives a      *)
(* successful Help with the log file dropped, whatever tokens follow it.   *)
(***************************************************************************)
ThmFallback ==
    /\ (pc = "command" /\ subcommand[1] \notin KnownSubcommands) => ENABLED FallbackArm
    /\ (pc = "done" /\ subcommand # None /\ subcommand[1] \notin KnownSubcommands)
          => /\ result = Ok
             /\ command = [name |-> "Help"]
             /\ log_file = None

WitFallback ==
    /\ pc = "done"
    /\ args = <<"--log-file", "f.log", "bogus", "--foo", "x">>
    /\ command = [name |-> "Help"]
    /\ matches = <<"--foo", "x">>

(***************************************************************************)
(* C8: ssr, and the patterns of search, take every remaining token in      *)
(* order: on success the list has one element per remaining token, element *)
(* i being the parse of token i; a token that fails to convert fails the   *)
(* whole parse; every turn of the loop ends it or consumes a token.        *)
(***************************************************************************)
\* The tokens the loop of ssr or search starts with.
LoopTokens ==
    IF subcommand = Some("ssr") THEN ArmTokens
    ELSE opt_value_from_str(ArmTokens, <<"--debug">>, "String").rest

LoopConv(t) ==
    IF subcommand = Some("ssr") THEN SsrRuleFromStr(t) ELSE SsrPatternFromStr(t)

LoopList ==
    IF command.name = "Ssr" THEN command.rules
    ELSE IF command.name = "StructuredSearch" THEN command.patterns
    ELSE <<>>

LoopProgress ==
    pc \in {"ssr_loop", "search_loop"}
        => (pc' = "done" \/ (pc' = pc /\ Len(matches') < Len(matches)))

ThmRemainingTokens ==
    /\ [](pc \in {"ssr_loop", "search_loop"} =>
            /\ Len(acc) + Len(matches) = Len(LoopTokens)
            /\ matches = SubSeq(LoopTokens, Len(acc) + 1, Len(LoopTokens))
            /\ \A i \in 1..Len(acc) : acc[i] = LoopConv(LoopTokens[i]).val)
    /\ []((/\ pc = "done"
           /\ subcommand \in {Some("ssr"), Some("search")}
           /\ ~(subcommand = Some("search") /\ IsMalformedValue(result) /\ acc = <<>>
                  /\ opt_value_from_str(ArmTokens, <<"--debug">>, "String").tag = "Err"))
          => IF \A i \in 1..Len(LoopTokens) : LoopConv(LoopTokens[i]).ok
             THEN /\ result = Ok
                  /\ command.name = IF subcommand = Some("ssr") THEN "Ssr" ELSE "StructuredSearch"
                  /\ Len(LoopList) = Len(LoopTokens)
                  /\ \A i \in 1..Len(LoopTokens) : LoopList[i] = LoopConv(LoopTokens[i]).val
             ELSE /\ result.tag = "Err"
                  /\ command = Unset)
    /\ [][LoopProgress]_vars

WitRemainingTokens ==
    /\ pc = "done"
    /\ args = <<"ssr", "foo() ==> bar()", "$a ==> $b">>
    /\ command = [name |-> "Ssr",
                  rules |-> <<[pattern |-> "foo()", template |-> "bar()"],
                              [pattern |-> "$a", template |-> "$b"]>>]

(***************************************************************************)
(* C9: the help flag is looked at after the version gate, the verbosity    *)
(* and the log file.  With -h/--help given and --version not, conflicting  *)
(* verbosity flags fail with the conflict error and a --log-file without   *)
(* usable value fails; otherwise the result is Help with the log file      *)
(* dropped, whatever else is present.                                      *)
(***************************************************************************)
HelpGiven == HasAny(args, HelpKeys)

HelpOutcome ==
    /\ result = Ok
    /\ command = [name |-> "Help"]
    /\ log_file = None
    /\ subcommand = None

ClaimHelpWheneverGiven ==
    (pc = "done" /\ HelpGiven /\ ~VersionGiven) =>
        IF QuietGiven /\ SpammyGiven THEN result = Err(ConflictVV)
        ELSE IF QuietGiven /\ VerboseGiven THEN result = Err(ConflictV)
        ELSE IF LogFileTaken.tag = "Err" THEN IsMalformedValue(result)
        ELSE HelpOutcome

\* C9, amended: as above, where Help is the result only when a help flag is
\* still unconsumed at the help gate, that is, when it was not taken as the
\* value of --log-file.
ThmHelpGate ==
    (pc = "done" /\ HelpGiven /\ ~VersionGiven) =>
        IF QuietGiven /\ SpammyGiven THEN result = Err(ConflictVV)
        ELSE IF QuietGiven /\ VerboseGiven THEN result = Err(ConflictV)
        ELSE IF LogFileTaken.tag = "Err" THEN IsMalformedValue(result)
        ELSE IF HasAny(LogFileTaken.rest, HelpKeys) THEN HelpOutcome
        ELSE ~HelpOutcome

WitHelpGate ==
    /\ pc = "done"
    /\ args = <<"--log-file", "f.log", "--help", "bogus", "x">>
    /\ HelpOutcome
    /\ matches = <<"bogus", "x">>

====
